---- MODULE Spec2Model ----
(***************************************************************************)
(* Stock and price synchronisation of redkrayn/seller-apis: seller.py      *)
(* (the Seller platform, Ozon) and market.py (the Market platform, Yandex  *)
(* Market, with its FBS and DBS channels).                                 *)
(*                                                                         *)
(* Text is modelled as a sequence of one-character strings, so that the    *)
(* normalisers (int(), str.split, re.sub) are computed character by        *)
(* character.  The feed's fields "Код", "Количество" and "Цена" are the    *)
(* record fields code, quantity and price.                                 *)
(***************************************************************************)
EXTENDS Integers, Sequences, FiniteSets, TLC

VARIABLES
    platform,        \* "seller" | "market": which main() runs
    pc,              \* position of main() (or of the function under check)
    channel,         \* Market: the campaign being synchronised, "FBS" | "DBS"
    shop,            \* platform side: campaign -> catalog of offer ids
    feed,            \* feed side: the records ostatki.xls holds
    watch_remnants,  \* main's local: the downloaded records
    offer_ids,       \* main's local: the list get_offer_ids returned
    product_list,    \* get_offer_ids' local: items accumulated over the pages
    cursor,          \* get_offer_ids' local: last_id (Seller) / page (Market)
    stocks,          \* main's local: create_stocks' result
    prices,          \* main's local: create_prices' result
    batches,         \* the list(divide(...)) being iterated: chunks not yet pushed
    pending,         \* the network call in flight, or NoCall
    netlog,          \* every network call issued, in order
    err,             \* the exception raised, or "none"
    printed,         \* what main's handler printed
    coros,           \* Market: coroutine objects created and never run
    gen              \* the divide generator under check: [lst, n, i, out, st]

vars == <<platform, pc, channel, shop, feed, watch_remnants, offer_ids,
          product_list, cursor, stocks, prices, batches, pending, netlog,
          err, printed, coros, gen>>

----------------------------------------------------------------------------
(* Bounds of the model. *)

\* longest feed (records of ostatki.xls) in a run
MaxFeed == 2
\* longest catalog a campaign serves
MaxCat == 3
\* longest list handed to divide in DivideSpec
MaxLst == 4
\* largest chunk size handed to divide in DivideSpec (the smallest is -MaxN)
MaxN == 3
\* items per catalog page in a run; the code asks for 1000 (seller.py:47)
\* and 200 (market.py:42), more than a catalog of the model holds
PageLimit == 2
\* batch cap of every dispatch in a run; the code's caps are 100 and 900
\* (seller.py:338, 342) and 2000 (market.py:358, 367), more than a list of
\* the model holds
BatchCap == 2

----------------------------------------------------------------------------
(* Python text helpers. *)

Min(a, b) == IF a < b THEN a ELSE b

DigitChars == {"0", "1", "2", "3", "4", "5", "6", "7", "8", "9"}

\* The character class [0-9] of re.sub("[^0-9]", "", ...).
IsDigit(c) == c \in DigitChars

DigitValue(c) ==
    CASE c = "0" -> 0 [] c = "1" -> 1 [] c = "2" -> 2 [] c = "3" -> 3
      [] c = "4" -> 4 [] c = "5" -> 5 [] c = "6" -> 6 [] c = "7" -> 7
      [] c = "8" -> 8 [] c = "9" -> 9

\* str.strip() as int() applies it: leading and trailing blanks are dropped.
RECURSIVE LStrip(_)
LStrip(s) == IF s # <<>> /\ Head(s) = " " THEN LStrip(Tail(s)) ELSE s

RECURSIVE RStrip(_)
RStrip(s) ==
    IF s # <<>> /\ s[Len(s)] = " " THEN RStrip(SubSeq(s, 1, Len(s) - 1)) ELSE s

Strip(s) == RStrip(LStrip(s))

\* The digits of a literal after its optional sign.
Unsigned(s) == IF s # <<>> /\ Head(s) \in {"+", "-"} THEN Tail(s) ELSE s

\* Whether int(s) accepts the text s: blanks around, one optional sign, then
\* at least one digit and digits only.
IntParses(s) ==
    LET d == Unsigned(Strip(s))
    IN  d # <<>> /\ \A k \in 1..Len(d) : IsDigit(d[k])

RECURSIVE DigitsValue(_)
DigitsValue(d) ==
    IF d = <<>> THEN 0
    ELSE 10 * DigitsValue(SubSeq(d, 1, Len(d) - 1)) + DigitValue(d[Len(d)])

\* int(s) of a text s that int() accepts.
IntOf(s) ==
    LET t == Strip(s)
    IN  IF t # <<>> /\ Head(t) = "-" THEN 0 - DigitsValue(Unsigned(t))
        ELSE DigitsValue(Unsigned(t))

\* s.split(".")[0]: the text before the first '.', all of s when it has none.
RECURSIVE BeforeDot(_)
BeforeDot(s) ==
    IF s = <<>> \/ Head(s) = "." THEN <<>> ELSE <<Head(s)>> \o BeforeDot(Tail(s))

\* re.sub("[^0-9]", "", s): s without its characters that are not digits.
KeepDigits(s) == SelectSeq(s, IsDigit)

\* set(lst)
Elems(s) == {s[k] : k \in 1..Len(s)}

\* Whether no item occurs twice in the list s.
NoDup(s) == \A i, j \in 1..Len(s) : i # j => s[i] # s[j]

\* lst.count(x)
CountIn(s, x) == Cardinality({k \in 1..Len(s) : s[k] = x})

\* The codes the records of the inventory I carry.
FeedCodes(I) == {I[k].code : k \in 1..Len(I)}

\* x in lst
In(x, lst) == \E k \in 1..Len(lst) : lst[k] = x

\* Mutant of Remove: the matched id stays in the working list.
Remove_kept(lst, x) == lst

\* lst.remove(x) of a list that holds x: the first occurrence goes.
Remove(lst, x) ==
    LET k == CHOOSE j \in 1..Len(lst) :
                 lst[j] = x /\ \A m \in 1..(j - 1) : lst[m] # x
    IN  SubSeq(lst, 1, k - 1) \o SubSeq(lst, k + 1, Len(lst))

\* lst[i : j] for 0 <= i: the items at 0-based positions i .. j-1, clipped.
Slice(lst, i, j) == SubSeq(lst, i + 1, Min(j, Len(lst)))

----------------------------------------------------------------------------
(* seller.py: divide, the generator over range(0, len(lst), n). *)

\* Whether i is a value range(0, stop, step) still yields (step # 0).
InRange(i, stop, step) == IF step > 0 THEN i < stop ELSE i > stop

\* Mutant of Chunk: the slice stops one item early, lst[i : i + n - 1].
Chunk_short(lst, i, n) == Slice(lst, i, i + n - 1)

\* The slice one iteration yields.
Chunk(lst, i, n) == Slice(lst, i, i + n)

NoGen == [lst |-> <<>>, n |-> 1, i |-> 0, out |-> <<>>, st |-> "idle"]

\* list(divide(lst, n)) from position i on, for n # 0.
RECURSIVE DivideFrom(_, _, _)
DivideFrom(lst, n, i) ==
    IF InRange(i, Len(lst), n)
    THEN <<Chunk(lst, i, n)>> \o DivideFrom(lst, n, i + n)
    ELSE <<>>

\* list(divide(lst, n)): range() raises ValueError for a step of 0.
divide(lst, n) ==
    IF n = 0 THEN [ok |-> FALSE, val |-> <<>>, exc |-> "ValueError"]
    ELSE [ok |-> TRUE, val |-> DivideFrom(lst, n, 0), exc |-> "none"]

----------------------------------------------------------------------------
(* seller.py and market.py: create_stocks, create_prices, price_conversion. *)

Raised(e) == [ok |-> FALSE, val |-> 0, exc |-> e]
Value(v) == [ok |-> TRUE, val |-> v, exc |-> "none"]

\* Mutant of StockCount: the elif for the literal "1" is missing.
StockCount_no_elif(count) ==
    IF count = <<">", "1", "0">> THEN Value(100)
    ELSE IF IntParses(count) THEN Value(IntOf(count))
    ELSE Raised("ValueError")

\* The if / elif / else on str(watch.get("Количество")) of create_stocks; the
\* else branch is int(...), which raises ValueError on a text it rejects.
StockCount(count) ==
    IF count = <<">", "1", "0">> THEN Value(100)
    ELSE IF count = <<"1">> THEN Value(0)
    ELSE IF IntParses(count) THEN Value(IntOf(count))
    ELSE Raised("ValueError")

\* The dict create_stocks appends for offer id with stock count.
SellerStock(id, count) == [offer_id |-> id, stock |-> count]

MarketStock(id, count, warehouse_id, date) ==
    [sku |-> id, warehouseId |-> warehouse_id,
     items |-> <<[count |-> count, type |-> "FIT", updatedAt |-> date]>>]

StockEntry(plat, id, count, warehouse_id, date) ==
    IF plat = "seller" THEN SellerStock(id, count)
    ELSE MarketStock(id, count, warehouse_id, date)

\* for offer_id in offer_ids: stocks.append({... 0 ...})
ZeroStocks(plat, ids, warehouse_id, date) ==
    [k \in 1..Len(ids) |-> StockEntry(plat, ids[k], 0, warehouse_id, date)]

\* for watch in watch_remnants: ... of create_stocks, from record k on, with
\* the stocks appended so far and the list offer_ids as it is by then.  The
\* list is the caller's own object: what is removed here is removed there.
RECURSIVE StocksLoop(_, _, _, _, _, _, _)
StocksLoop(plat, watch_remnants_, k, stocks_, ids, warehouse_id, date) ==
    IF k > Len(watch_remnants_)
    THEN [ok |-> TRUE, exc |-> "none", offer_ids |-> ids,
          stocks |-> stocks_ \o ZeroStocks(plat, ids, warehouse_id, date)]
    ELSE LET watch == watch_remnants_[k]
         IN  IF In(watch.code, ids)
             THEN LET c == StockCount(watch.quantity)
                  IN  IF ~c.ok
                      THEN [ok |-> FALSE, exc |-> c.exc, offer_ids |-> ids,
                            stocks |-> <<>>]
                      ELSE StocksLoop(plat, watch_remnants_, k + 1,
                               Append(stocks_,
                                   StockEntry(plat, watch.code, c.val,
                                              warehouse_id, date)),
                               Remove(ids, watch.code), warehouse_id, date)
             ELSE StocksLoop(plat, watch_remnants_, k + 1, stocks_, ids,
                             warehouse_id, date)

\* seller.py create_stocks(watch_remnants, offer_ids).
seller_create_stocks(watch_remnants_, offer_ids_) ==
    StocksLoop("seller", watch_remnants_, 1, <<>>, offer_ids_, "", "")

\* market.py create_stocks(watch_remnants, offer_ids, warehouse_id); date is
\* what datetime.utcnow() gives at the call.
market_create_stocks(watch_remnants_, offer_ids_, warehouse_id, date) ==
    StocksLoop("market", watch_remnants_, 1, <<>>, offer_ids_, warehouse_id,
               date)

\* seller.py price_conversion(price).
price_conversion(price) == KeepDigits(BeforeDot(price))

\* The dict seller.py create_prices appends.
SellerPrice(watch) ==
    Value([auto_action_enabled |-> "UNKNOWN", currency_code |-> "RUB",
           offer_id |-> watch.code, old_price |-> <<"0">>,
           price |-> price_conversion(watch.price)])

\* The dict market.py create_prices appends: int() of the digits, which
\* raises ValueError when there is none.
MarketPrice(watch) ==
    LET digits == price_conversion(watch.price)
    IN  IF IntParses(digits)
        THEN Value([id |-> watch.code,
                    price |-> [value |-> IntOf(digits), currencyId |-> "RUR"]])
        ELSE Raised("ValueError")

RECURSIVE PricesLoop(_, _, _, _, _)
PricesLoop(plat, watch_remnants_, k, prices_, ids) ==
    IF k > Len(watch_remnants_)
    THEN [ok |-> TRUE, exc |-> "none", prices |-> prices_]
    ELSE LET watch == watch_remnants_[k]
         IN  IF In(watch.code, ids)
             THEN LET p == IF plat = "seller" THEN SellerPrice(watch)
                           ELSE MarketPrice(watch)
                  IN  IF ~p.ok
                      THEN [ok |-> FALSE, exc |-> p.exc, prices |-> <<>>]
                      ELSE PricesLoop(plat, watch_remnants_, k + 1,
                                      Append(prices_, p.val), ids)
             ELSE PricesLoop(plat, watch_remnants_, k + 1, prices_, ids)

\* seller.py create_prices(watch_remnants, offer_ids).
seller_create_prices(watch_remnants_, offer_ids_) ==
    PricesLoop("seller", watch_remnants_, 1, <<>>, offer_ids_)

\* market.py create_prices(watch_remnants, offer_ids).
market_create_prices(watch_remnants_, offer_ids_) ==
    PricesLoop("market", watch_remnants_, 1, <<>>, offer_ids_)

\* The offer id and the count a stock update carries, on either platform.
StockId(e) == IF "offer_id" \in DOMAIN e THEN e.offer_id ELSE e.sku
StockOf(e) == IF "stock" \in DOMAIN e THEN e.stock ELSE e.items[1].count
PriceId(e) == IF "offer_id" \in DOMAIN e THEN e.offer_id ELSE e.id

----------------------------------------------------------------------------
(* The variables a specification does not use keep these values. *)

NoCall == [op |-> "none"]

IdleRun ==
    /\ platform = "none" /\ pc = "idle" /\ channel = "none"
    /\ shop = <<>> /\ feed = <<>> /\ watch_remnants = <<>>
    /\ offer_ids = <<>> /\ product_list = <<>> /\ cursor = 0
    /\ stocks = <<>> /\ prices = <<>> /\ batches = <<>>
    /\ pending = NoCall /\ netlog = <<>> /\ err = "none"
    /\ printed = <<>> /\ coros = 0

runvars == <<platform, pc, channel, shop, feed, watch_remnants, offer_ids,
             product_list, cursor, stocks, prices, batches, pending, netlog,
             err, printed, coros>>

----------------------------------------------------------------------------
(* DivideSpec: divide(lst, n) consumed to its end, one next() at a time. *)

Items == {1, 2}

Lists(m) == UNION {[1..k -> Items] : k \in 0..m}

DivideInit ==
    /\ IdleRun
    /\ \E l \in Lists(MaxLst), k \in (0 - MaxN)..MaxN :
          gen = [lst |-> l, n |-> k, i |-> 0, out |-> <<>>, st |-> "created"]

\* The first next(): the for statement evaluates range(0, len(lst), n).
GenStart ==
    /\ gen.st = "created"
    /\ gen' = [gen EXCEPT !.st = IF gen.n = 0 THEN "raised" ELSE "running",
                          !.i = 0]
    /\ UNCHANGED runvars

\* range yields i: the generator yields lst[i : i + n].
GenYield ==
    /\ gen.st = "running"
    /\ InRange(gen.i, Len(gen.lst), gen.n)
    /\ gen' = [gen EXCEPT !.out = Append(@, Chunk(gen.lst, gen.i, gen.n)),
                          !.i = @ + gen.n]
    /\ UNCHANGED runvars

\* range is exhausted: the generator returns (StopIteration).
GenStop ==
    /\ gen.st = "running"
    /\ ~InRange(gen.i, Len(gen.lst), gen.n)
    /\ gen' = [gen EXCEPT !.st = "done"]
    /\ UNCHANGED runvars

DivideNext == GenStart \/ GenYield \/ GenStop

DivideSpec == DivideInit /\ [][DivideNext]_vars

----------------------------------------------------------------------------
(* ReconcileSpec: create_stocks and create_prices applied to an inventory   *)
(* and a catalog, as upload_stocks / upload_prices and main apply them.     *)

\* Raw quantities and prices of the feed, as texts.  The module's strings
\* are ASCII: the letters of "руб." are written r, u, b.
Q_gt10 == <<">", "1", "0">>
Q_one == <<"1">>
Q_seven == <<"7">>
Q_abc == <<"a", "b", "c">>
Q_lead0 == <<"0", "1">>
P_5990 == <<"5", "'", "9", "9", "0", ".", "0", "0", " ", "r", "u", "b", ".">>
P_100 == <<"1", "0", "0", ".", "5", "0", " ", "$">>
P_abc == <<"a", "b", "c">>
P_200 == <<"2", "0", "0", ".", "0", "0", " ", "r", "u", "b", ".">>
P_frac == <<".", "5", "0">>

\* The (quantity, price) pairs a record of the feed may carry: every
\* quantity and every price above occurs in one.
Cells == {<<Q_gt10, P_5990>>, <<Q_one, P_100>>, <<Q_seven, P_abc>>,
          <<Q_abc, P_200>>, <<Q_lead0, P_frac>>}

FnIds == {"A", "B"}

FnRecords ==
    {[code |-> c, quantity |-> x[1], price |-> x[2]] : c \in FnIds, x \in Cells}

SeqsUpTo(S, m) == UNION {[1..k -> S] : k \in 0..m}

Campaign(plat) == IF plat = "seller" THEN "client" ELSE "FBS"

Now == "2023-10-01T12:00:00Z"

Warehouse(ch) == IF ch = "FBS" THEN "WAREHOUSE_FBS_ID" ELSE "WAREHOUSE_DBS_ID"

ReconcileInit ==
    /\ platform \in {"seller", "market"}
    /\ pc = "ready"
    /\ channel = Campaign(platform)
    /\ watch_remnants \in SeqsUpTo(FnRecords, MaxFeed)
    /\ offer_ids \in SeqsUpTo(FnIds, MaxCat)
    /\ shop = [c \in {channel} |-> offer_ids]
    /\ feed = watch_remnants
    /\ product_list = <<>> /\ cursor = 0
    /\ stocks = <<>> /\ prices = <<>> /\ batches = <<>>
    /\ pending = NoCall /\ netlog = <<>> /\ err = "none"
    /\ printed = <<>> /\ coros = 0
    /\ gen = NoGen

\* create_stocks on the platform in hand.
CreateStocks(plat, ch, watch_remnants_, offer_ids_) ==
    IF plat = "seller" THEN seller_create_stocks(watch_remnants_, offer_ids_)
    ELSE market_create_stocks(watch_remnants_, offer_ids_, Warehouse(ch), Now)

\* create_prices on the platform in hand.
CreatePrices(plat, watch_remnants_, offer_ids_) ==
    IF plat = "seller" THEN seller_create_prices(watch_remnants_, offer_ids_)
    ELSE market_create_prices(watch_remnants_, offer_ids_)

\* stocks = create_stocks(watch_remnants, offer_ids[, warehouse_id])
CallCreateStocks ==
    /\ pc = "ready"
    /\ LET r == CreateStocks(platform, channel, watch_remnants, offer_ids)
       IN  /\ offer_ids' = r.offer_ids
           /\ stocks' = r.stocks
           /\ err' = r.exc
           /\ pc' = IF r.ok THEN "stocks_returned" ELSE "stocks_raised"
    /\ UNCHANGED <<platform, channel, shop, feed, watch_remnants, product_list,
                   cursor, prices, batches, pending, netlog, printed, coros,
                   gen>>

\* prices = create_prices(watch_remnants, offer_ids), on the list as it is.
CallCreatePrices ==
    /\ pc \in {"ready", "stocks_returned"}
    /\ LET r == CreatePrices(platform, watch_remnants, offer_ids)
       IN  /\ prices' = r.prices
           /\ err' = r.exc
           /\ pc' = IF r.ok THEN "prices_returned" ELSE "prices_raised"
    /\ UNCHANGED <<platform, channel, shop, feed, watch_remnants, offer_ids,
                   product_list, cursor, stocks, batches, pending, netlog,
                   printed, coros, gen>>

ReconcileNext == CallCreateStocks \/ CallCreatePrices

ReconcileSpec == ReconcileInit /\ [][ReconcileNext]_vars

----------------------------------------------------------------------------
(* Spec: one run of seller.main or of market.main, configuration loaded.    *)
(* A network call is two steps, the request and its return; the return      *)
(* either delivers the response or raises.                                  *)

RunIds == <<"A", "B", "C">>

IdRank(x) == CHOOSE k \in 1..Len(RunIds) : RunIds[k] = x

\* The records a run's feed is made of.
RunRecords ==
    {[code |-> "A", quantity |-> Q_gt10, price |-> P_5990],
     [code |-> "B", quantity |-> Q_one, price |-> P_200],
     [code |-> "C", quantity |-> Q_abc, price |-> P_abc]}

\* The catalogs a campaign may serve: ids in the platform's order, an id
\* possibly listed more than once.
RunCatalogs ==
    {c \in SeqsUpTo(Elems(RunIds), MaxCat) :
        \A k \in 1..(Len(c) - 1) : IdRank(c[k]) <= IdRank(c[k + 1])}

Campaigns(plat) == IF plat = "seller" THEN {"client"} ELSE {"FBS", "DBS"}

\* What requests raises on a failed call.
NetErrors == {"ReadTimeout", "ConnectionError", "HTTPError"}

Call(op, campaign, batch) == [op |-> op, campaign |-> campaign, batch |-> batch]

RunInit ==
    /\ platform \in {"seller", "market"}
    /\ pc = IF platform = "seller" THEN "get_offer_ids" ELSE "download_stock"
    /\ channel = Campaign(platform)
    /\ shop \in [Campaigns(platform) -> RunCatalogs]
    /\ feed \in SeqsUpTo(RunRecords, MaxFeed)
    /\ watch_remnants = <<>> /\ offer_ids = <<>>
    /\ product_list = <<>> /\ cursor = 0
    /\ stocks = <<>> /\ prices = <<>> /\ batches = <<>>
    /\ pending = NoCall /\ netlog = <<>> /\ err = "none"
    /\ printed = <<>> /\ coros = 0
    /\ gen = NoGen

\* What the except clauses of main print for exception e.
Message(e) ==
    IF e = "ReadTimeout" THEN "timeout"
    ELSE IF e = "ConnectionError" THEN "connection error"
    ELSE "ERROR_2"

\* Mutant of AfterRaise: the exception is swallowed where it was raised and
\* main goes on from the same statement.
AfterRaise_goes_on(p) == p

\* Where main is after an exception raised inside its try block: the
\* matching except clause has printed and main has returned.
AfterRaise(p) == "returned"

\* Exception e raised at a statement inside main's try block.
RaiseInTry(e) ==
    /\ err' = e
    /\ printed' = Append(printed, Message(e))
    /\ pc' = AfterRaise(pc)

\* requests.post / requests.get / session.get is issued.
Issue(c) ==
    /\ pending = NoCall
    /\ pending' = c
    /\ netlog' = Append(netlog, c)

----------------------------------------------------------------------------
(* get_offer_ids: the catalog, page by page. *)

\* The page of catalog cat that starts after the first `from` items.
Page(cat, from) == Slice(cat, from, from + PageLimit)

\* Mutant of LastPage: Seller compares "total" with the size of the page
\* just received instead of the number of items accumulated.
LastPage_this_page(plat, cat, from, got) ==
    IF plat = "seller" THEN Len(cat) = Len(Page(cat, from))
    ELSE ~(from + Len(Page(cat, from)) < Len(cat))

\* Seller: "total" of the response equals the number of items accumulated.
\* Market: "nextPageToken" of the response is empty (modelled as 0).
LastPage(plat, cat, from, got) ==
    IF plat = "seller" THEN Len(cat) = Len(got)
    ELSE ~(from + Len(Page(cat, from)) < Len(cat))

\* The step of main that follows get_offer_ids.
AfterOfferIds(plat) ==
    IF plat = "seller" THEN "download_stock" ELSE "create_stocks"

\* get_product_list(last_id / page, ...) is called.
FetchCall ==
    /\ pc = "get_offer_ids"
    /\ Issue(Call("list", channel, <<>>))
    /\ UNCHANGED <<platform, pc, channel, shop, feed, watch_remnants,
                   offer_ids, product_list, cursor, stocks, prices, batches,
                   err, printed, coros, gen>>

\* The page arrives: product_list.extend(...), and the loop ends or goes on.
FetchReturn ==
    /\ pc = "get_offer_ids"
    /\ pending # NoCall
    /\ pending' = NoCall
    /\ LET cat == shop[channel]
           got == product_list \o Page(cat, cursor)
       IN  IF LastPage(platform, cat, cursor, got)
           THEN /\ offer_ids' = got
                /\ product_list' = <<>>
                /\ cursor' = 0
                /\ pc' = AfterOfferIds(platform)
           ELSE /\ product_list' = got
                /\ cursor' = cursor + Len(Page(cat, cursor))
                /\ UNCHANGED <<offer_ids, pc>>
    /\ UNCHANGED <<platform, channel, shop, feed, watch_remnants, stocks,
                   prices, batches, netlog, err, printed, coros, gen>>

\* response.raise_for_status() (or the request itself) raises.
FetchFail ==
    /\ pc = "get_offer_ids"
    /\ pending # NoCall
    /\ pending' = NoCall
    /\ \E e \in NetErrors : RaiseInTry(e)
    /\ UNCHANGED <<platform, channel, shop, feed, watch_remnants, offer_ids,
                   product_list, cursor, stocks, prices, batches, netlog,
                   coros, gen>>

\* FetchSpec: get_offer_ids alone, on a platform whose every page call
\* succeeds.  The program is sequential and each call returns: the call and
\* its return are taken whenever they are due.
FetchInit ==
    /\ platform \in {"seller", "market"}
    /\ pc = "get_offer_ids"
    /\ channel = Campaign(platform)
    /\ \E cat \in SeqsUpTo(Elems(RunIds), MaxCat) :
          shop = [c \in {channel} |-> cat]
    /\ feed = <<>> /\ watch_remnants = <<>> /\ offer_ids = <<>>
    /\ product_list = <<>> /\ cursor = 0
    /\ stocks = <<>> /\ prices = <<>> /\ batches = <<>>
    /\ pending = NoCall /\ netlog = <<>> /\ err = "none"
    /\ printed = <<>> /\ coros = 0
    /\ gen = NoGen

FetchNext == FetchCall \/ FetchReturn

FetchSpec ==
    FetchInit /\ [][FetchNext]_vars /\ WF_vars(FetchCall) /\ WF_vars(FetchReturn)

----------------------------------------------------------------------------
(* download_stock *)

AfterDownload(plat) ==
    IF plat = "seller" THEN "create_stocks" ELSE "get_offer_ids"

DownloadCall ==
    /\ pc = "download_stock"
    /\ Issue(Call("download", "feed", <<>>))
    /\ UNCHANGED <<platform, pc, channel, shop, feed, watch_remnants,
                   offer_ids, product_list, cursor, stocks, prices, batches,
                   err, printed, coros, gen>>

DownloadReturn ==
    /\ pc = "download_stock"
    /\ pending # NoCall
    /\ pending' = NoCall
    /\ watch_remnants' = feed
    /\ pc' = AfterDownload(platform)
    /\ UNCHANGED <<platform, channel, shop, feed, offer_ids, product_list,
                   cursor, stocks, prices, batches, netlog, err, printed,
                   coros, gen>>

\* seller.main calls download_stock inside its try block, market.main
\* before it: there the exception leaves main.
DownloadFail ==
    /\ pc = "download_stock"
    /\ pending # NoCall
    /\ pending' = NoCall
    /\ \E e \in NetErrors :
          IF platform = "seller" THEN RaiseInTry(e)
          ELSE err' = e /\ pc' = "propagated" /\ UNCHANGED printed
    /\ UNCHANGED <<platform, channel, shop, feed, watch_remnants, offer_ids,
                   product_list, cursor, stocks, prices, batches, netlog,
                   coros, gen>>

----------------------------------------------------------------------------
(* main: reconcile, batch, dispatch. *)

\* stocks = create_stocks(watch_remnants, offer_ids[, warehouse_id]); the
\* list offer_ids of main is the one create_stocks removes from.
MainCreateStocks ==
    /\ pc = "create_stocks"
    /\ LET r == CreateStocks(platform, channel, watch_remnants, offer_ids)
       IN  /\ offer_ids' = r.offer_ids
           /\ IF r.ok
              THEN /\ stocks' = r.stocks
                   /\ pc' = "divide_stocks"
                   /\ UNCHANGED <<err, printed>>
              ELSE /\ RaiseInTry(r.exc)
                   /\ UNCHANGED stocks
    /\ UNCHANGED <<platform, channel, shop, feed, watch_remnants,
                   product_list, cursor, prices, batches, pending, netlog,
                   coros, gen>>

\* The step of main that follows the loop over the stock batches.
AfterStocks(plat) ==
    IF plat = "seller" THEN "create_prices" ELSE "upload_prices"

\* for some_stock in list(divide(stocks, cap)): the list of chunks is built.
MainDivideStocks ==
    /\ pc = "divide_stocks"
    /\ batches' = divide(stocks, BatchCap).val
    /\ pc' = IF batches' = <<>> THEN AfterStocks(platform) ELSE "push_stocks"
    /\ UNCHANGED <<platform, channel, shop, feed, watch_remnants, offer_ids,
                   product_list, cursor, stocks, prices, pending, netlog, err,
                   printed, coros, gen>>

\* Mutant of Rest: the loop skips the chunk after the one it pushed.
Rest_skips(chunks) == IF Len(chunks) > 1 THEN Tail(Tail(chunks)) ELSE <<>>

\* The chunks left to push once the chunk at the head has been pushed.
Rest(chunks) == Tail(chunks)

\* update_stocks(some_stock, ...) is called with the next chunk.
PushStocksCall ==
    /\ pc = "push_stocks"
    /\ Issue(Call("stocks", channel, Head(batches)))
    /\ UNCHANGED <<platform, pc, channel, shop, feed, watch_remnants,
                   offer_ids, product_list, cursor, stocks, prices, batches,
                   err, printed, coros, gen>>

\* update_stocks returns: the loop takes the next chunk or ends.
PushStocksReturn ==
    /\ pc = "push_stocks"
    /\ pending # NoCall
    /\ pending' = NoCall
    /\ batches' = Rest(batches)
    /\ pc' = IF batches' = <<>> THEN AfterStocks(platform) ELSE "push_stocks"
    /\ UNCHANGED <<platform, channel, shop, feed, watch_remnants, offer_ids,
                   product_list, cursor, stocks, prices, netlog, err, printed,
                   coros, gen>>

\* update_stocks raises.
PushStocksFail ==
    /\ pc = "push_stocks"
    /\ pending # NoCall
    /\ pending' = NoCall
    /\ \E e \in NetErrors : RaiseInTry(e)
    /\ UNCHANGED <<platform, channel, shop, feed, watch_remnants, offer_ids,
                   product_list, cursor, stocks, prices, batches, netlog,
                   coros, gen>>

\* seller.main: prices = create_prices(watch_remnants, offer_ids), with the
\* list offer_ids as create_stocks left it.
MainCreatePrices ==
    /\ pc = "create_prices"
    /\ LET r == CreatePrices(platform, watch_remnants, offer_ids)
       IN  IF r.ok
           THEN /\ prices' = r.prices
                /\ pc' = "divide_prices"
                /\ UNCHANGED <<err, printed>>
           ELSE /\ RaiseInTry(r.exc)
                /\ UNCHANGED prices
    /\ UNCHANGED <<platform, channel, shop, feed, watch_remnants, offer_ids,
                   product_list, cursor, stocks, batches, pending, netlog,
                   coros, gen>>

\* seller.main: for some_price in list(divide(prices, cap)).
MainDividePrices ==
    /\ pc = "divide_prices"
    /\ batches' = divide(prices, BatchCap).val
    /\ pc' = IF batches' = <<>> THEN "returned" ELSE "push_prices"
    /\ UNCHANGED <<platform, channel, shop, feed, watch_remnants, offer_ids,
                   product_list, cursor, stocks, prices, pending, netlog, err,
                   printed, coros, gen>>

\* seller.main: update_price(some_price, ...) is called.
PushPricesCall ==
    /\ pc = "push_prices"
    /\ Issue(Call("prices", channel, Head(batches)))
    /\ UNCHANGED <<platform, pc, channel, shop, feed, watch_remnants,
                   offer_ids, product_list, cursor, stocks, prices, batches,
                   err, printed, coros, gen>>

PushPricesReturn ==
    /\ pc = "push_prices"
    /\ pending # NoCall
    /\ pending' = NoCall
    /\ batches' = Rest(batches)
    /\ pc' = IF batches' = <<>> THEN "returned" ELSE "push_prices"
    /\ UNCHANGED <<platform, channel, shop, feed, watch_remnants, offer_ids,
                   product_list, cursor, stocks, prices, netlog, err, printed,
                   coros, gen>>

PushPricesFail ==
    /\ pc = "push_prices"
    /\ pending # NoCall
    /\ pending' = NoCall
    /\ \E e \in NetErrors : RaiseInTry(e)
    /\ UNCHANGED <<platform, channel, shop, feed, watch_remnants, offer_ids,
                   product_list, cursor, stocks, prices, batches, netlog,
                   coros, gen>>

\* market.main: upload_prices(watch_remnants, campaign, token).  upload_prices
\* is declared async def and main does not await the call: the call builds a
\* coroutine object and returns it, and the body of upload_prices never runs.
\* main then goes on to the DBS campaign, or returns.
MainUploadPrices ==
    /\ pc = "upload_prices"
    /\ coros' = coros + 1
    /\ IF channel = "FBS"
       THEN channel' = "DBS" /\ pc' = "get_offer_ids"
       ELSE pc' = "returned" /\ UNCHANGED channel
    /\ UNCHANGED <<platform, shop, feed, watch_remnants, offer_ids,
                   product_list, cursor, stocks, prices, batches, pending,
                   netlog, err, printed, gen>>

Next ==
    \/ FetchCall \/ FetchReturn \/ FetchFail
    \/ DownloadCall \/ DownloadReturn \/ DownloadFail
    \/ MainCreateStocks \/ MainDivideStocks
    \/ PushStocksCall \/ PushStocksReturn \/ PushStocksFail
    \/ MainCreatePrices \/ MainDividePrices
    \/ PushPricesCall \/ PushPricesReturn \/ PushPricesFail
    \/ MainUploadPrices

Init == RunInit

Spec == Init /\ [][Next]_vars

----------------------------------------------------------------------------
(* Claims about a run. *)

\* The push calls of one kind issued to one campaign, in order.
PushCalls(op, campaign) ==
    SelectSeq(netlog, LAMBDA c : c.op = op /\ c.campaign = campaign)

\* The offer ids of the price updates pushed to a campaign.
PushedPriceIds(campaign) ==
    LET calls == PushCalls("prices", campaign)
    IN  UNION {{PriceId(calls[k].batch[j]) : j \in 1..Len(calls[k].batch)} :
                   k \in 1..Len(calls)}

\* C2 (as claimed): an error-free run of seller.main has pushed price
\* updates for exactly the catalog ids that are codes of the feed.
C2_SellerPriceCoverage ==
    (platform = "seller" /\ pc = "returned" /\ err = "none") =>
        PushedPriceIds("client") = Elems(shop["client"]) \cap FeedCodes(feed)

\* C3 (as claimed): at the end of an error-free run of market.main, every
\* campaign whose catalog shares an id with the feed has received a price
\* push, each of at most the cap's size.
C3_MarketPricesPushed ==
    (platform = "market" /\ pc = "returned" /\ err = "none") =>
        \A ch \in {"FBS", "DBS"} :
            /\ Elems(shop[ch]) \cap FeedCodes(feed) # {}
                  => PushCalls("prices", ch) # <<>>
            /\ \A k \in 1..Len(PushCalls("prices", ch)) :
                  Len(PushCalls("prices", ch)[k].batch) <= BatchCap

Ceil(a, b) == (a + b - 1) \div b

\* divide on the spec's example: 2500 updates under the cap of 2000.
MarketStockCap == 2000

Example2500 ==
    LET S == [k \in 1..2500 |-> k]
        d == divide(S, MarketStockCap).val
    IN  /\ Len(d) = 2
        /\ d[1] = SubSeq(S, 1, 2000)
        /\ d[2] = SubSeq(S, 2001, 2500)

\* C4: a push call is issued only when no call is in flight, and the k-th
\* push of a dispatch carries the items at positions (k-1)*n .. min(k*n, L)-1
\* of the list dispatched, in order; when the loop over the batches ends
\* without an error, ceil(L/n) pushes have been made.  2500 items under a
\* cap of 2000 are two chunks, of 2000 and of 500.
C4_Step ==
    /\ netlog' # netlog /\ netlog'[Len(netlog')].op \in {"stocks", "prices"} =>
          LET c == netlog'[Len(netlog')]
              lst == IF c.op = "stocks" THEN stocks ELSE prices
              k == Len(PushCalls(c.op, c.campaign))
          IN  /\ pending = NoCall
              /\ k * BatchCap < Len(lst)
              /\ c.batch = SubSeq(lst, k * BatchCap + 1,
                                  Min((k + 1) * BatchCap, Len(lst)))
    /\ (pc \in {"divide_stocks", "push_stocks"}
          /\ pc' \notin {"divide_stocks", "push_stocks"} /\ err' = "none") =>
          Len(PushCalls("stocks", channel)) = Ceil(Len(stocks), BatchCap)
    /\ (pc \in {"divide_prices", "push_prices"}
          /\ pc' \notin {"divide_prices", "push_prices"} /\ err' = "none") =>
          Len(PushCalls("prices", channel)) = Ceil(Len(prices'), BatchCap)

\* C4: every step of a run keeps the batching order C4_Step states, and
\* 2500 updates under the cap of 2000 are pushed as 2000 and then 500.
C4_SequentialBatches == Example2500 /\ [][C4_Step]_vars

\* C4 witness: a run ended without error after two stock pushes to a
\* campaign, of 2 items and then of 1.
C4_Witness ==
    /\ pc = "returned" /\ err = "none"
    /\ \E ch \in DOMAIN shop :
          /\ Len(PushCalls("stocks", ch)) = 2
          /\ Len(PushCalls("stocks", ch)[1].batch) = 2
          /\ Len(PushCalls("stocks", ch)[2].batch) = 1

\* C5 (as claimed): no exception leaves main, and a run that met an error
\* has printed one message and returned.
C5_ErrorsCaught ==
    /\ pc # "propagated"
    /\ (pc = "returned" /\ err # "none") => Len(printed) = 1

\* C6: once a call has failed (or any statement of the run has raised), no
\* further network call is issued: nothing is retried, no later batch or
\* channel is dispatched, and no compensating call follows.
C6_NoCallAfterFailure == [][err # "none" => netlog' = netlog]_vars

\* C6 witness: the second stock push to FBS failed; the first stays pushed,
\* its batch is not sent again, and DBS was never contacted.
C6_Witness ==
    /\ platform = "market" /\ channel = "FBS"
    /\ err = "HTTPError" /\ pc = "returned"
    /\ Len(PushCalls("stocks", "FBS")) = 2
    /\ Len(batches) = 1
    /\ \A k \in 1..Len(netlog) : netlog[k].campaign # "DBS"

----------------------------------------------------------------------------
(* Claims about get_offer_ids. *)

\* The first page at which the platform signals the end of a catalog of L
\* items served PageLimit items a page: the accumulated count reaches the
\* total (Seller), no item is left for a next page (Market).
FirstLastPage(L) == CHOOSE k \in 1..(L + 1) :
    /\ k * PageLimit >= L
    /\ \A j \in 1..(k - 1) : j * PageLimit < L

C12_Safe ==
    LET cat == shop[channel]
        calls == Len(PushCalls("list", channel))
    IN  /\ calls <= FirstLastPage(Len(cat))
        /\ pc = "get_offer_ids" => product_list = SubSeq(cat, 1, cursor)
        /\ pc # "get_offer_ids" =>
              /\ calls = FirstLastPage(Len(cat))
              /\ offer_ids = cat
              /\ pending = NoCall /\ err = "none"

\* C12: when every page call succeeds, get_offer_ids issues no page request
\* after the first page that signals the end (Seller: accumulated count
\* equals the reported total; Market: empty next-page token), and the fetch
\* eventually returns the offer ids of the pages fetched, in page order.
C12_FetchTerminates == []C12_Safe /\ <>(pc # "get_offer_ids")

\* C12 witness: Seller's catalog of three ids has been fetched in two pages.
C12_Witness ==
    /\ platform = "seller" /\ pc = "download_stock"
    /\ shop[channel] = <<"B", "A", "C">>
    /\ offer_ids = <<"B", "A", "C">>
    /\ Len(PushCalls("list", channel)) = 2

----------------------------------------------------------------------------
(* Claims about create_stocks and create_prices. *)

\* C1: when create_stocks(I, C) returns for a catalog C without duplicate
\* ids, the list holds len(C) stock updates, every id of C exactly once and
\* no other id, and the ids of C that I does not mention carry count 0.
C1_StocksCoverCatalog ==
    (pc = "stocks_returned" /\ NoDup(shop[channel])) =>
        LET C == shop[channel]
        IN  /\ Len(stocks) = Len(C)
            /\ \A id \in Elems(C) :
                  Cardinality({k \in 1..Len(stocks) :
                                  StockId(stocks[k]) = id}) = 1
            /\ \A k \in 1..Len(stocks) :
                  /\ StockId(stocks[k]) \in Elems(C)
                  /\ StockId(stocks[k]) \notin FeedCodes(watch_remnants)
                        => StockOf(stocks[k]) = 0

\* C1 witness: the feed names A twice and B never; the catalog is [B, A].
C1_Witness ==
    /\ pc = "stocks_returned"
    /\ shop[channel] = <<"B", "A">>
    /\ Len(watch_remnants) = 2
    /\ watch_remnants[1].code = "A" /\ watch_remnants[2].code = "A"
    /\ Len(stocks) = 2
    /\ StockId(stocks[1]) = "A" /\ StockOf(stocks[1]) = 100
    /\ StockId(stocks[2]) = "B" /\ StockOf(stocks[2]) = 0

\* The records of I that create_stocks(I, C) matches: the j-th record of a
\* code is matched while the catalog holds at least j copies of the code.
MatchedRecords(I, C) ==
    {k \in 1..Len(I) :
        Cardinality({j \in 1..(k - 1) : I[j].code = I[k].code})
            < CountIn(C, I[k].code)}

\* The count each raw quantity of the feed stands for; "abc" stands for none.
ExpectedCount(q) ==
    CASE q = Q_gt10 -> 100
      [] q = Q_one -> 0
      [] q = Q_seven -> 7
      [] q = Q_lead0 -> 1
      [] OTHER -> -1

\* C8: create_stocks fails (ValueError) exactly when a matched record's
\* quantity is not an integer text; when it returns, the update of each
\* matched record carries 100 for ">10", 0 for "1" and the integer
\* otherwise ("7" gives 7), in the order of the records.
C8_QuantityNormalised ==
    pc \in {"stocks_returned", "stocks_raised"} =>
        LET I == watch_remnants
            M == MatchedRecords(I, shop[channel])
            rank(k) == Cardinality({j \in M : j <= k})
        IN  /\ (pc = "stocks_raised") <=> (\E k \in M : I[k].quantity = Q_abc)
            /\ pc = "stocks_raised" => err = "ValueError" /\ stocks = <<>>
            /\ pc = "stocks_returned" =>
                  /\ Len(stocks) >= Cardinality(M)
                  /\ \A k \in M :
                        /\ StockId(stocks[rank(k)]) = I[k].code
                        /\ StockOf(stocks[rank(k)]) =
                              ExpectedCount(I[k].quantity)

\* C8 witness: a matched ">10" and a matched "1" have been normalised.
C8_Witness ==
    /\ pc = "stocks_returned"
    /\ Len(watch_remnants) = 2
    /\ watch_remnants[1].quantity = Q_gt10 /\ watch_remnants[2].quantity = Q_one
    /\ MatchedRecords(watch_remnants, shop[channel]) = {1, 2}
    /\ StockOf(stocks[1]) = 100 /\ StockOf(stocks[2]) = 0

HasDigit(s) == \E k \in 1..Len(s) : IsDigit(s[k])

\* C9 (as claimed): create_prices returns only when the price of every
\* record it matches has a digit before its first '.', and no price update
\* it returns carries an empty price.
C9_NoEmptyPrice ==
    pc = "prices_returned" =>
        /\ \A k \in 1..Len(watch_remnants) :
              In(watch_remnants[k].code, offer_ids)
                  => HasDigit(BeforeDot(watch_remnants[k].price))
        /\ \A k \in 1..Len(prices) :
              platform = "seller" => prices[k].price # <<>>

\* C11 (as claimed): after create_stocks has returned, the caller's list of
\* catalog offer ids holds the same ids in the same order as before the
\* call, so that a later create_prices reads the full catalog.
C11_CallerListUnchanged ==
    pc = "stocks_returned" => offer_ids = shop[channel]

----------------------------------------------------------------------------
(* Claims about divide. *)

RECURSIVE Concat(_)
Concat(ss) == IF ss = <<>> THEN <<>> ELSE Head(ss) \o Concat(Tail(ss))

\* C7: for n > 0 the chunks divide(S, n) has produced so far, concatenated,
\* are the prefix of S consumed so far, each of length n; once the generator
\* is exhausted they reconstruct S, every chunk but the last has length n,
\* the last is non-empty with length len(S) mod n (n when n divides len(S)),
\* an empty S gives no chunk, and list(divide(S, n)) is that same list.
C7_DivideReconstructs ==
    (gen.st \in {"running", "done"} /\ gen.n > 0) =>
        LET L == Len(gen.lst)
            m == Len(gen.out)
        IN  /\ Concat(gen.out) = SubSeq(gen.lst, 1, Min(gen.i, L))
            /\ \A k \in 1..(m - 1) : Len(gen.out[k]) = gen.n
            /\ gen.st = "done" =>
                  /\ Concat(gen.out) = gen.lst
                  /\ gen.out = divide(gen.lst, gen.n).val
                  /\ (L = 0) <=> (m = 0)
                  /\ m > 0 =>
                        Len(gen.out[m]) =
                            IF L % gen.n = 0 THEN gen.n ELSE L % gen.n

\* C7 witness: a list of two chunks, the last one shorter, fully produced.
C7_Witness ==
    /\ gen.st = "done" /\ gen.n = 2 /\ gen.lst = <<1, 2, 1>>
    /\ gen.out = << <<1, 2>>, <<1>> >>

\* C10 (as claimed): divide(S, n) never completes normally when n <= 0.
C10_NonPositiveFails == gen.n <= 0 => gen.st # "done"

====
